---- MODULE Spec2Model ----
(***************************************************************************)
(* Smart Socks CSV generator (src/mock.py): wearer discovery from          *)
(* WEARERS_JSON, per-(wearer, chart) CSV files, periodic reconciliation    *)
(* and the emission loop.                                                  *)
(*                                                                         *)
(* A wearer id is a sequence of one-character strings, a path is the pair  *)
(* <<directory, wearer id>> (os.path.join(d, f"{wid}.csv")), and the file  *)
(* system is a function from the existing paths to their rows.             *)
(***************************************************************************)
EXTENDS Integers, Sequences, FiniteSets, TLC

VARIABLES
    WEARERS_JSON,       \* os.getenv("WEARERS_JSON"), None when unset
    CHART_DIRS,         \* chart -> directory or None
    DELETE_ON_REMOVAL,  \* deletion flag
    DRY_RUN,            \* dry-run flag
    profile,            \* cadence profile: "second" (src/mock.py) or "minute"
    known_ids,          \* the known wearer set
    ids,                \* current_ids at startup, ids at every re-scan
    reads,              \* per load_wearer_ids call so far: did it end in a failure path
    last_json_check,    \* time.monotonic() of the last re-scan
    now,                \* datetime.now() of the current loop iteration
    clock,              \* the system clock, in seconds
    files,              \* the file system: existing path -> sequence of rows
    log,                \* the notices printed by the last step
    pc,                 \* "start", "poll", "emit", "sleep", "exit", "crashed";
                        \* "gen", "done" around a generator call (SpecGen)
    iter,               \* loop iterations completed
    gen_out             \* the last generator call: chart and value (SpecGen)

vars == <<WEARERS_JSON, CHART_DIRS, DELETE_ON_REMOVAL, DRY_RUN, profile,
          known_ids, ids, reads, last_json_check, now, clock, files,
          log, pc, iter, gen_out>>

config == <<WEARERS_JSON, CHART_DIRS, DELETE_ON_REMOVAL, DRY_RUN, profile>>

\* ------------------------------------------------------------------ bounds

\* Loop iterations explored.
MaxIter == 2
\* Paths on which I/O may fail during one step.
MaxFaults == 1

\* ------------------------------------------------------------- constants

WEARERS_POLL_SEC == 15

None == "None"

\* The charts of CHART_DIRS the model configures, in the dict's order.
ChartOrder == <<"activity", "skin">>
Charts == {ChartOrder[i] : i \in 1..Len(ChartOrder)}
Dirs == {"dA", "dB"}

\* Raw "id" values of wearer objects: blank, padded, duplicate and distinct.
RawIds == {<<>>, <<" ">>, <<"4">>, <<" ", "4", " ">>, <<"7">>}

\* ---------------------------------------------------------------- helpers

Range(s) == {s[i] : i \in 1..Len(s)}

RECURSIVE LStrip(_)
LStrip(s) == IF s # <<>> /\ Head(s) = " " THEN LStrip(Tail(s)) ELSE s

RECURSIVE RStrip(_)
RStrip(s) ==
    IF s # <<>> /\ s[Len(s)] = " " THEN RStrip(SubSeq(s, 1, Len(s) - 1)) ELSE s

\* str.strip()
Strip(s) == RStrip(LStrip(s))

WearerIds == {Strip(r) : r \in RawIds} \ {<<>>}
Paths == Dirs \X WearerIds

\* The orders in which a set may be iterated.
SeqsOf(S) == {s \in [1..Cardinality(S) -> S] : Range(s) = S}

\* The paths on which I/O fails during a step.
Faults == {F \in SUBSET Paths : Cardinality(F) <= MaxFaults}

\* ------------------------------------------------------ membership source

\* A wearer object of the document: null, or an object with a raw id.
Null == [isnull |-> TRUE, id |-> <<>>]
Obj(raw) == [isnull |-> FALSE, id |-> raw]

Doc(form, es) == [kind |-> "doc", form |-> form, entries |-> es]

\* What WEARERS_JSON holds at a read: nothing, unparsable text, or a
\* document whose "Wearers" is a dict or a list of wearer objects. The
\* samples cover blank, padded and duplicate ids and null wearer objects.
Sources ==
    {[kind |-> "missing", form |-> "none", entries |-> <<>>],
     [kind |-> "malformed", form |-> "none", entries |-> <<>>],
     Doc("dict", <<>>),
     Doc("list", <<Obj(<<" ", "4", " ">>), Obj(<<"4">>)>>),
     Doc("dict", <<Obj(<<"7">>), Obj(<<" ">>)>>),
     Doc("list", <<Null, Obj(<<"7">>)>>),
     Doc("dict", <<Obj(<<"4">>), Obj(<<"7">>)>>),
     Doc("list", <<Obj(<<"7">>), Obj(<<"4">>)>>),
     Doc("dict", <<Obj(<<"4">>), Null>>),
     Doc("dict", <<Null, Obj(<<"7">>)>>)}

\* The non-blank stripped ids of the wearer objects, in order.
RECURSIVE CollectIds(_)
CollectIds(es) ==
    IF es = <<>> THEN <<>>
    ELSE LET wid == Strip(Head(es).id)
         IN  IF wid # <<>> THEN <<wid>> \o CollectIds(Tail(es))
             ELSE CollectIds(Tail(es))

\* The ids collected before the first null wearer object.
RECURSIVE CollectUntilNull(_)
CollectUntilNull(es) ==
    IF es = <<>> \/ Head(es).isnull THEN <<>>
    ELSE LET wid == Strip(Head(es).id)
         IN  IF wid # <<>> THEN <<wid>> \o CollectUntilNull(Tail(es))
             ELSE CollectUntilNull(Tail(es))

\* wearer.get on a null wearer raises in the dict branch; the list branch
\* reads (wearer or {}).
LoadRaises(src) ==
    \/ src.kind = "malformed"
    \/ /\ src.kind = "doc"
       /\ src.form = "dict"
       /\ \E i \in 1..Len(src.entries) : src.entries[i].isnull

\* A buggy reader that returns what it collected before the exception.
load_wearer_ids_partial(json_path, src) ==
    IF json_path = None \/ src.kind = "missing" THEN <<>>
    ELSE IF src.kind = "malformed" THEN <<>>
    ELSE IF src.form = "dict" THEN CollectUntilNull(src.entries)
    ELSE CollectIds(src.entries)

load_wearer_ids(json_path, src) ==
    IF json_path = None \/ src.kind = "missing" THEN <<>>
    ELSE IF LoadRaises(src) THEN <<>>
    ELSE CollectIds(src.entries)

\* A read that ends in one of the two `return []` failure paths.
ReadFails(json_path, src) ==
    json_path = None \/ src.kind = "missing" \/ LoadRaises(src)

\* ----------------------------------------------------------------- rows

\* The header row x,y,time,date.
HeaderRow == [kind |-> "header", x |-> 0, y |-> "y", time |-> 0, date |-> 0]

\* A data row: x is the timestamp, y stands for the chart's formatted value
\* (FORMAT_MAP[chart](GEN_MAP[chart](now, wid))), time and date its parts.
DataRow(t, chart) ==
    [kind |-> "data", x |-> t, y |-> chart, time |-> t % 86400, date |-> t \div 86400]

Exists(fs, path) == path \in DOMAIN fs

WriteFile(fs, path, rows) ==
    [p \in DOMAIN fs \cup {path} |-> IF p = path THEN rows ELSE fs[p]]

RemoveFile(fs, path) == [p \in DOMAIN fs \ {path} |-> fs[p]]

\* The state threaded through a loop of file operations: the file system,
\* whether an exception has propagated, and the notices printed.
Start(fs) == [fs |-> fs, raised |-> FALSE, out |-> {}]

\* A printed notice about a path, or about a set of wearers; an uncaught
\* exception's traceback is the notice "raised".
Notice(tag, path) == [tag |-> tag, path |-> path, wids |-> {}]
NoticeIds(tag, wids) == [tag |-> tag, path |-> <<>>, wids |-> wids]

Raise(st, path) ==
    [st EXCEPT !.raised = TRUE, !.out = st.out \cup {Notice("raised", path)}]

\* A buggy bootstrap that appends the header whenever it is called.
ensure_file_with_header_always(st, d, wid, fault) ==
    LET path == <<d, wid>>
    IN  IF path \in fault THEN Raise(st, path)
        ELSE [st EXCEPT
                !.fs = WriteFile(st.fs, path,
                         (IF Exists(st.fs, path) THEN st.fs[path] ELSE <<>>)
                           \o <<HeaderRow>>),
                !.out = st.out \cup {Notice("header created", path)}]

ensure_file_with_header(st, d, wid, fault) ==
    LET path == <<d, wid>>
    IN  IF ~Exists(st.fs, path) \/ Len(st.fs[path]) = 0
        THEN IF path \in fault THEN Raise(st, path)
             ELSE [st EXCEPT
                     !.fs = WriteFile(st.fs, path, <<HeaderRow>>),
                     !.out = st.out \cup {Notice("header created", path)}]
        ELSE st

append_row(st, path, chart, t, fault) ==
    IF path \in fault THEN Raise(st, path)
    ELSE [st EXCEPT
            !.fs = WriteFile(st.fs, path,
                     (IF Exists(st.fs, path) THEN st.fs[path] ELSE <<>>)
                       \o <<DataRow(t, chart)>>)]

\* configured = {k: v for k, v in CHART_DIRS.items() if v}
Configured(chart_dirs) ==
    [c \in {k \in DOMAIN chart_dirs : chart_dirs[k] # None} |-> chart_dirs[c]]

configured == Configured(CHART_DIRS)

\* The configured charts in dict order.
RECURSIVE ChartsIn(_, _)
ChartsIn(order, conf) ==
    IF order = <<>> THEN <<>>
    ELSE (IF Head(order) \in DOMAIN conf THEN <<Head(order)>> ELSE <<>>)
           \o ChartsIn(Tail(order), conf)

\* for wid in ...: for chart, d in configured.items(): the pairs in order.
RECURSIVE PairsOf(_, _)
PairsOf(wids, charts) ==
    IF wids = <<>> THEN <<>>
    ELSE [i \in 1..Len(charts) |-> <<Head(wids), charts[i]>>]
           \o PairsOf(Tail(wids), charts)

\* A buggy deletion that forgets the dry-run flag.
delete_csv_ignoring_dry_run(st, path, fault) ==
    IF Exists(st.fs, path) /\ DELETE_ON_REMOVAL
    THEN IF path \in fault
         THEN [st EXCEPT !.out = st.out \cup {Notice("delete failed", path)}]
         ELSE [st EXCEPT !.fs = RemoveFile(st.fs, path),
                         !.out = st.out \cup {Notice("deleted", path)}]
    ELSE st

\* One deletion of delete_csvs_for_wearer's loop.
delete_csv(st, path, fault) ==
    IF Exists(st.fs, path)
    THEN IF DRY_RUN
         THEN [st EXCEPT !.out = st.out \cup {Notice("would delete", path)}]
         ELSE IF DELETE_ON_REMOVAL
              THEN IF path \in fault
                   THEN [st EXCEPT !.out = st.out \cup {Notice("delete failed", path)}]
                   ELSE [st EXCEPT !.fs = RemoveFile(st.fs, path),
                                   !.out = st.out \cup {Notice("deleted", path)}]
              ELSE st
    ELSE st

RECURSIVE delete_csvs_for_wearer(_, _, _, _)
delete_csvs_for_wearer(st, wid, charts, fault) ==
    IF charts = <<>> THEN st
    ELSE delete_csvs_for_wearer(
             delete_csv(st, <<configured[Head(charts)], wid>>, fault),
             wid, Tail(charts), fault)

\* for wid in removed: delete_csvs_for_wearer(wid, configured)
RECURSIVE DeleteLoop(_, _, _)
DeleteLoop(st, wids, fault) ==
    IF wids = {} THEN st
    ELSE LET wid == CHOOSE w \in wids : TRUE
         IN  DeleteLoop(
                 delete_csvs_for_wearer(st, wid, ChartsIn(ChartOrder, configured), fault),
                 wids \ {wid}, fault)

\* for wid in ...: for _, d in configured.items(): ensure_file_with_header(d, wid)
RECURSIVE ProvisionLoop(_, _, _)
ProvisionLoop(st, pairs, fault) ==
    IF pairs = <<>> \/ st.raised THEN st
    ELSE ProvisionLoop(
             ensure_file_with_header(st, configured[Head(pairs)[2]], Head(pairs)[1], fault),
             Tail(pairs), fault)

\* The body of the emission loop for one (wid, chart).
emit_pair(st, wid, chart, t, fault) ==
    LET d == configured[chart]
        file_path == <<d, wid>>
        st1 == IF ~Exists(st.fs, file_path)
               THEN ensure_file_with_header(st, d, wid, fault)
               ELSE st
    IN  IF st1.raised THEN st1
        ELSE append_row(st1, file_path, chart, t, fault)

\* The start of the clock minute of t.
period_start(t) == t - (t % 60)

\* A buggy check that never finds the period written.
already_emitted_never(fs, path, start) == FALSE

\* Whether the file's last data row carries the period's timestamp.
already_emitted_for_period(fs, path, start) ==
    /\ Exists(fs, path)
    /\ Len(fs[path]) >= 1
    /\ fs[path][Len(fs[path])].kind = "data"
    /\ fs[path][Len(fs[path])].x = start

\* The minute-cadence body: ensure the file, skip a period already written.
emit_pair_minute(st, wid, chart, t, fault) ==
    LET d == configured[chart]
        file_path == <<d, wid>>
        st1 == ensure_file_with_header(st, d, wid, fault)
    IN  IF st1.raised THEN st1
        ELSE IF already_emitted_for_period(st1.fs, file_path, period_start(t))
             THEN st1
             ELSE append_row(st1, file_path, chart, period_start(t), fault)

RECURSIVE EmitLoop(_, _, _, _)
EmitLoop(st, pairs, t, fault) ==
    IF pairs = <<>> \/ st.raised THEN st
    ELSE EmitLoop(
             IF profile = "minute"
             THEN emit_pair_minute(st, Head(pairs)[1], Head(pairs)[2], t, fault)
             ELSE emit_pair(st, Head(pairs)[1], Head(pairs)[2], t, fault),
             Tail(pairs), t, fault)

\* A buggy loop that emits for every wearer that has a file.
emission_wearers_with_files(known, fs) ==
    known \cup {w \in WearerIds : \E d \in Dirs : Exists(fs, <<d, w>>)}

\* for wid in list(known_ids)
emission_wearers(known, fs) == known

\* A buggy diff that treats every known wearer as removed.
removed_all(known, fresh) == known

\* removed = known_ids - ids
removed_ids(known, fresh) == known \ fresh

\* added = ids - known_ids
added_ids(known, fresh) == fresh \ known

\* A buggy update that patches the known set by what was added and deleted.
next_known_patch(known, fresh, fs) ==
    (known \cup fresh) \
        {w \in known \ fresh : \A d \in Dirs : ~Exists(fs, <<d, w>>)}

\* known_ids = ids
next_known(known, fresh, fs) == fresh

\* The sleeps explored: time.sleep(1) takes at least a second, and an
\* iteration may stall for a whole poll interval (a minute tick: a minute).
Elapsed == IF profile = "minute" THEN {1, 60} ELSE {1, WEARERS_POLL_SEC}

\* ------------------------------------------------------------ generators
\* Values are integers in a unit per chart: 1/10000 for activity, calmness,
\* mobility, skin and symmetry; 1/1000 for skin_temp and step_time_var;
\* 1/100 for turns and walking; 1/10 for cadence, prv and pulse_rate; 1 for
\* bouts, longest_bout and steps.

\* Steps of a random.uniform(a, b) draw: 0 is a, RandSteps is b.
RandSteps == 4

\* 1000 * sin(2*pi*k/period), read at the start of k's eighth of the period.
SinMilli(k, period) ==
    <<0, 707, 1000, 707, 0, -707, -1000, -707>>[((8 * (k % period)) \div period) + 1]

\* 1000 * cos(2*pi*k/period) = 1000 * sin(2*pi*(4k + period)/(4*period))
CosMilli(k, period) == SinMilli(4 * k + period, 4 * period)

Abs(x) == IF x < 0 THEN -x ELSE x

DigitVal(ch) ==
    CASE ch = "0" -> 0 [] ch = "1" -> 1 [] ch = "2" -> 2 [] ch = "3" -> 3
      [] ch = "4" -> 4 [] ch = "5" -> 5 [] ch = "6" -> 6 [] ch = "7" -> 7
      [] ch = "8" -> 8 [] ch = "9" -> 9 [] OTHER -> -1

RECURSIVE DigitsVal(_, _)
DigitsVal(s, acc) ==
    IF s = <<>> THEN acc ELSE DigitsVal(Tail(s), 10 * acc + DigitVal(Head(s)))

IsDigits(s) == s # <<>> /\ \A i \in 1..Len(s) : DigitVal(s[i]) >= 0

\* int(wearer_id), or abs(hash(wearer_id)) % 10_000_000 when it raises; h is
\* the process's hash of the id.
_id_num(wearer_id, h) ==
    IF IsDigits(wearer_id) THEN DigitsVal(wearer_id, 0)
    ELSE IF wearer_id # <<>> /\ Head(wearer_id) = "-" /\ IsDigits(Tail(wearer_id))
         THEN -DigitsVal(Tail(wearer_id), 0)
         ELSE Abs(h) % 10000000

\* A clamp that lets every value through.
clamp_none(v, lo, hi) == v

clamp(v, lo, hi) == IF v < lo THEN lo ELSE IF v > hi THEN hi ELSE v

\* random.uniform(a, b) at step n of RandSteps.
Uniform(a, b, n) == a + ((b - a) * n) \div RandSteps

\* random.randint(a, b), picked by a draw.
RandInt(a, b, pick) == a + (pick % (b - a + 1))

\* now.hour*3600 + now.minute*60 + now.second
Mid(t) == t.hour * 3600 + t.minute * 60 + t.second

gen_activity_value(t, u, rnd) ==
    LET wave == (2500 * SinMilli(Mid(t) + (u % 86400), 86400)) \div 1000
        base == 6000 + ((u % 7) - 3) * 50
        noise == Uniform(-500, 500, rnd.n)
    IN  clamp(base + wave + noise, 0, 10000)

gen_calmness_value(t, u, rnd) ==
    LET wave == (3000 * CosMilli(Mid(t) + (u % 86400), 86400)) \div 1000
        base == 5000 + ((u % 5) - 2) * 40
        noise == Uniform(-500, 500, rnd.n)
    IN  clamp(base + wave + noise, 0, 10000)

gen_mobility_value(t, u, rnd) ==
    LET wave == (2500 * SinMilli(Mid(t) + (u % 5400), 5400)) \div 1000
        base == 3000 + ((u % 9) - 4) * 30
        noise == Uniform(-400, 400, rnd.n)
    IN  clamp(base + wave + noise, 0, 10000)

gen_cadence_value(t, u, rnd) ==
    LET wave == (70 * SinMilli(Mid(t) + (u % 86400), 86400)) \div 1000
        base == 520 + ((u % 5) - 2) * 3
        noise == Uniform(-20, 20, rnd.n)
    IN  clamp(base + wave + noise, 350, 800)

gen_prv_value(t, u, rnd) ==
    LET wave == (180 * CosMilli(Mid(t) + (u % 21600), 21600)) \div 1000
        base == 400 + ((u % 7) - 3) * 5
        noise == Uniform(-60, 60, rnd.n)
    IN  clamp(base + wave + noise, 50, 1000)

gen_skin_value(t, u, rnd) ==
    LET base == 200 + ((u % 9) - 4) * 8
        phasic == (150 * (1000 + SinMilli(t.second + (u % 120), 45))) \div 1000
        spike == IF rnd.r1 < 7 THEN Uniform(200, 500, rnd.m) ELSE 0
        noise == Uniform(-40, 40, rnd.n)
    IN  IF rnd.r2 < 20 THEN 0
        ELSE clamp(base + phasic + spike + noise, 0, 800)

gen_bouts_value(t, u, rnd) ==
    IF rnd.r1 < 75 THEN RandInt(0, 1, rnd.pick)
    ELSE IF rnd.r1 < 93 THEN RandInt(2, 3, rnd.pick)
    ELSE RandInt(4, 6, rnd.pick)

gen_longest_bout_value(t, u, rnd) ==
    LET wave == (60 * (1000 + SinMilli(Mid(t) + (u % 5000), 5000))) \div 1000
        base == 30 + ((u % 7) - 3) * 2
        noise == Uniform(-10, 10, rnd.n)
    IN  clamp(base + wave + noise, 2, 300)

gen_pulse_rate_value(t, u, rnd) ==
    LET wave == (120 * SinMilli(Mid(t) + (u % 86400), 86400)) \div 1000
        base == 750 + ((u % 9) - 4) * 6
        noise == Uniform(-60, 60, rnd.n)
    IN  clamp(base + wave + noise, 500, 1200)

gen_skin_temperature_value(t, u, rnd) ==
    LET wave == (10 * SinMilli(Mid(t) + (u % 4000), 4000)) \div 1000
        base == 32170 + ((u % 5) - 2)
        noise == Uniform(-6, 6, rnd.n)
    IN  clamp(base + wave + noise, 32120, 32220)

gen_steps_value(t, u, rnd) ==
    IF rnd.r1 < 80 THEN 0
    ELSE IF rnd.r1 < 95 THEN RandInt(1, 2, rnd.pick)
    ELSE RandInt(3, 4, rnd.pick)

gen_step_time_variation_value(t, u, rnd) ==
    LET wave == (60 * SinMilli(Mid(t) + (u % 7200), 7200)) \div 1000
        base == 560 + ((u % 7) - 3) * 2
        noise == Uniform(-40, 40, rnd.n)
    IN  clamp(base + wave + noise, 400, 800)

gen_symmetry_value(t, u, rnd) ==
    LET wave == (30 * SinMilli(Mid(t) + (u % 600), 600)) \div 1000
        base == 9000 + ((u % 5) - 2) * 5
        noise == Uniform(-25, 25, rnd.n)
    IN  clamp(base + wave + noise, 8850, 9150)

gen_turns_value(t, u, rnd) ==
    LET wave == (18 * SinMilli(Mid(t) + (u % 1800), 1800)) \div 1000
        base == 180 + ((u % 7) - 3)
        noise == Uniform(-8, 8, rnd.n)
    IN  clamp(base + wave + noise, 140, 220)

gen_walking_value(t, u, rnd) ==
    LET wave == (25 * SinMilli(Mid(t) + (u % 2700), 2700)) \div 1000
        base == 120 + ((u % 5) - 2)
        noise == Uniform(-12, 12, rnd.n)
    IN  clamp(base + wave + noise, 80, 180)

GenCharts ==
    {"activity", "calmness", "mobility", "cadence", "prv", "skin", "bouts",
     "longest_bout", "pulse_rate", "skin_temp", "steps", "step_time_var",
     "symmetry", "turns", "walking"}

GEN_MAP(chart, t, wearer_id, rnd) ==
    LET u == _id_num(wearer_id, rnd.h)
    IN  CASE chart = "activity" -> gen_activity_value(t, u, rnd)
          [] chart = "calmness" -> gen_calmness_value(t, u, rnd)
          [] chart = "mobility" -> gen_mobility_value(t, u, rnd)
          [] chart = "cadence" -> gen_cadence_value(t, u, rnd)
          [] chart = "prv" -> gen_prv_value(t, u, rnd)
          [] chart = "skin" -> gen_skin_value(t, u, rnd)
          [] chart = "bouts" -> gen_bouts_value(t, u, rnd)
          [] chart = "longest_bout" -> gen_longest_bout_value(t, u, rnd)
          [] chart = "pulse_rate" -> gen_pulse_rate_value(t, u, rnd)
          [] chart = "skin_temp" -> gen_skin_temperature_value(t, u, rnd)
          [] chart = "steps" -> gen_steps_value(t, u, rnd)
          [] chart = "step_time_var" -> gen_step_time_variation_value(t, u, rnd)
          [] chart = "symmetry" -> gen_symmetry_value(t, u, rnd)
          [] chart = "turns" -> gen_turns_value(t, u, rnd)
          [] chart = "walking" -> gen_walking_value(t, u, rnd)

\* Wall-clock times sampled: each quarter of the day, the last second, and
\* times inside the mobility and skin cycles.
GenNows ==
    {[hour |-> 0, minute |-> 0, second |-> 0],
     [hour |-> 1, minute |-> 7, second |-> 30],
     [hour |-> 6, minute |-> 0, second |-> 0],
     [hour |-> 12, minute |-> 34, second |-> 11],
     [hour |-> 18, minute |-> 0, second |-> 0],
     [hour |-> 23, minute |-> 59, second |-> 59]}

\* Wearer ids sampled: numeric, negative and non-numeric.
GenWearers == {<<"4">>, <<"9">>, <<"4", "2">>, <<"-", "5">>, <<"a", "b">>}

\* hash() outcomes sampled for the non-numeric ids.
HashSamples == {-12345678, 8, 86399}

\* random.random() outcomes sampled, in hundredths: both sides of every
\* threshold the generators compare against.
UnitSamples == {0, 6, 7, 19, 20, 74, 75, 79, 80, 92, 93, 94, 95, 99}

\* The draws a generator call makes; a chart draws only what it reads.
Randoms(chart) ==
    [h : HashSamples,
     r1 : IF chart \in {"skin", "bouts", "steps"} THEN UnitSamples ELSE {0},
     r2 : IF chart = "skin" THEN UnitSamples ELSE {0},
     m : IF chart = "skin" THEN 0..RandSteps ELSE {0},
     n : IF chart \in {"bouts", "steps"} THEN {0} ELSE 0..RandSteps,
     pick : IF chart \in {"bouts", "steps"} THEN 0..5 ELSE {0}]

\* ------------------------------------------------------------------ init

\* The *_DIR settings explored: two directories, one shared directory, one
\* chart only, and none.
Configs ==
    {[c \in Charts |-> IF c = "activity" THEN "dA" ELSE "dB"],
     [c \in Charts |-> "dA"],
     [c \in Charts |-> IF c = "activity" THEN "dA" ELSE None],
     [c \in Charts |-> None]}

InitWith(p) ==
    /\ WEARERS_JSON \in {None, "wearers.json"}
    /\ CHART_DIRS \in Configs
    /\ DELETE_ON_REMOVAL \in BOOLEAN
    /\ DRY_RUN \in BOOLEAN
    /\ profile = p
    /\ known_ids = {}
    /\ ids = {}
    /\ reads = <<>>
    /\ last_json_check = 0
    /\ now = 0
    /\ clock = 0
    /\ files = <<>>
    /\ log = {}
    /\ pc = "start"
    /\ iter = 0
    /\ gen_out = [chart |-> None, value |-> 0]

Init == InitWith("second")

InitMinute == InitWith("minute")

\* --------------------------------------------------------------- actions

\* The startup check: SystemExit without WEARERS_JSON or without a *_DIR.
StartupReject ==
    /\ pc = "start"
    /\ WEARERS_JSON = None \/ DOMAIN configured = {}
    /\ pc' = "exit"
    /\ UNCHANGED <<config, known_ids, ids, reads, last_json_check, now,
                   clock, files, log, iter, gen_out>>

\* The first load: every current wearer's files get their header.
StartupLoad ==
    /\ pc = "start"
    /\ ~(WEARERS_JSON = None \/ DOMAIN configured = {})
    /\ \E src \in Sources, fault \in Faults :
         LET current_ids == Range(load_wearer_ids(WEARERS_JSON, src))
         IN  \E order \in SeqsOf(current_ids) :
               LET st == ProvisionLoop(Start(files),
                             PairsOf(order, ChartsIn(ChartOrder, configured)), fault)
               IN  /\ files' = st.fs
                   /\ log' = st.out
                   /\ ids' = current_ids
                   /\ reads' = Append(reads, ReadFails(WEARERS_JSON, src))
                   /\ known_ids' = IF st.raised THEN known_ids ELSE current_ids
                   /\ pc' = IF st.raised THEN "crashed" ELSE "poll"
    /\ last_json_check' = clock
    /\ UNCHANGED <<config, now, clock, iter, gen_out>>

\* A loop iteration whose re-scan is not due.
SkipPoll ==
    /\ pc = "poll"
    /\ clock - last_json_check < WEARERS_POLL_SEC
    /\ now' = clock
    /\ pc' = "emit"
    /\ log' = {}
    /\ UNCHANGED <<config, known_ids, ids, reads, last_json_check, clock,
                   files, iter, gen_out>>

\* The JSON re-scan: delete for the removed, provision the added, replace.
Reconcile ==
    /\ pc = "poll"
    /\ clock - last_json_check >= WEARERS_POLL_SEC
    /\ now' = clock
    /\ last_json_check' = clock
    /\ \E src \in Sources, fault \in Faults :
         LET fresh == Range(load_wearer_ids(WEARERS_JSON, src))
             removed == removed_ids(known_ids, fresh)
             added == added_ids(known_ids, fresh)
             st0 == [Start(files) EXCEPT
                       !.out = (IF removed # {}
                                THEN {NoticeIds("wearers removed", removed)} ELSE {})
                               \cup (IF added # {}
                                     THEN {NoticeIds("new wearers", added)} ELSE {})]
             st1 == DeleteLoop(st0, removed, fault)
         IN  \E order \in SeqsOf(added) :
               LET st == ProvisionLoop(st1,
                             PairsOf(order, ChartsIn(ChartOrder, configured)), fault)
               IN  /\ files' = st.fs
                   /\ log' = st.out
                   /\ ids' = fresh
                   /\ reads' = Append(reads, ReadFails(WEARERS_JSON, src))
                   /\ known_ids' = IF st.raised THEN known_ids
                                   ELSE next_known(known_ids, fresh, st.fs)
                   /\ pc' = IF st.raised THEN "crashed" ELSE "emit"
    /\ UNCHANGED <<config, clock, iter, gen_out>>

\* One row per wearer per configured chart; an exception ends the process.
Emit ==
    /\ pc = "emit"
    /\ \E order \in SeqsOf(emission_wearers(known_ids, files)), fault \in Faults :
         LET st == EmitLoop(Start(files),
                       PairsOf(order, ChartsIn(ChartOrder, configured)), now, fault)
         IN  /\ files' = st.fs
             /\ log' = st.out
             /\ pc' = IF st.raised THEN "crashed" ELSE "sleep"
    /\ UNCHANGED <<config, known_ids, ids, reads, last_json_check, now,
                   clock, iter, gen_out>>

\* time.sleep(1), then the next iteration.
Sleep ==
    /\ pc = "sleep"
    /\ iter < MaxIter
    /\ \E d \in Elapsed : clock' = clock + d
    /\ iter' = iter + 1
    /\ pc' = "poll"
    /\ UNCHANGED <<config, known_ids, ids, reads, last_json_check, now,
                   files, log, gen_out>>

\* val = GEN_MAP[chart](now, wid), for sampled inputs and draws.
Generate ==
    /\ pc = "gen"
    /\ \E chart \in GenCharts, t \in GenNows, wid \in GenWearers :
         \E rnd \in Randoms(chart) :
           gen_out' = [chart |-> chart, value |-> GEN_MAP(chart, t, wid, rnd)]
    /\ pc' = "done"
    /\ UNCHANGED <<config, known_ids, ids, reads, last_json_check, now, clock,
                   files, log, iter>>

Next ==
    \/ StartupReject
    \/ StartupLoad
    \/ SkipPoll
    \/ Reconcile
    \/ Emit
    \/ Sleep

Spec == Init /\ [][Next]_vars

SpecMinute == InitMinute /\ [][Next]_vars

InitGen ==
    /\ WEARERS_JSON = None
    /\ CHART_DIRS = [c \in Charts |-> None]
    /\ DELETE_ON_REMOVAL = FALSE
    /\ DRY_RUN = FALSE
    /\ profile = "second"
    /\ known_ids = {}
    /\ ids = {}
    /\ reads = <<>>
    /\ last_json_check = 0
    /\ now = 0
    /\ clock = 0
    /\ files = <<>>
    /\ log = {}
    /\ pc = "gen"
    /\ iter = 0
    /\ gen_out = [chart |-> None, value |-> 0]

NextGen == Generate

SpecGen == InitGen /\ [][NextGen]_vars

\* ---------------------------------------------------------------- claims

\* The last load_wearer_ids call ended in a failure path.
read_failed == reads # <<>> /\ reads[Len(reads)]

\* A step of the JSON re-scan, and a step of the emission loop.
ReconcileStep ==
    pc = "poll" /\ clock - last_json_check >= WEARERS_POLL_SEC /\ pc' # "poll"
EmitStep == pc = "emit" /\ pc' # "emit"

Running == pc \in {"poll", "emit", "sleep"}

DataRows(rows) == SelectSeq(rows, LAMBDA r : r.kind = "data")
Last(rows) == rows[Len(rows)]

\* The path is left as it was by the step.
Untouched(p) ==
    /\ Exists(files', p) <=> Exists(files, p)
    /\ Exists(files, p) => files'[p] = files[p]

\* C1: within one emission tick an error on one (wearer, chart) pair leaves
\* every other pair with its row for the tick, and the loop goes on to the
\* next tick: a per-pair emission error never terminates the process.
C1_EmissionErrorIsolated ==
    [][EmitStep =>
        /\ pc' = "sleep"
        /\ \A w \in known_ids, c \in DOMAIN configured :
             LET p == <<configured[c], w>>
             IN  Notice("raised", p) \notin log' =>
                   /\ Exists(files', p)
                   /\ \E i \in 1..Len(files'[p]) : files'[p][i] = DataRow(now, c)]_vars

\* What a re-scan does to an existing file of a wearer it found removed.
RemovalFollowsFlags(p) ==
    IF DELETE_ON_REMOVAL /\ ~DRY_RUN /\ Notice("delete failed", p) \notin log'
    THEN ~Exists(files', p)
    ELSE Exists(files', p) /\ files'[p] = files[p]

\* C2: at a re-scan that finds a known wearer absent from the source, each
\* of its existing files is removed iff DELETE_ON_REMOVAL is set, DRY_RUN is
\* not, and the removal did not fail; otherwise the file stays, unchanged.
C2_RemovalFollowsFlags ==
    [][ReconcileStep =>
        \A w \in known_ids \ ids', c \in DOMAIN configured :
            LET p == <<configured[c], w>>
            IN  Exists(files, p) => RemovalFollowsFlags(p)]_vars

\* A re-scan has just deleted the file of a wearer that left the source.
C2_Witness ==
    \E p \in Paths :
        /\ Notice("deleted", p) \in log
        /\ ~Exists(files, p)
        /\ p[2] \notin known_ids
        /\ DELETE_ON_REMOVAL /\ ~DRY_RUN

\* C3: after the first load and after every re-scan that completes, the
\* known set is exactly the set just read, whatever the deletions did; and
\* only an uncaught exception (a "raised" notice, never a "delete failed"
\* one) stops a re-scan.
C3_KnownIsFresh ==
    [][/\ (pc = "start" /\ pc' = "poll") => known_ids' = ids'
       /\ ReconcileStep =>
            /\ pc' = "emit" => known_ids' = ids'
            /\ (\A n \in log' : n.tag # "raised") => pc' = "emit"]_vars

\* A re-scan whose deletion failed: the file is there, the wearer is not known.
C3_Witness ==
    \E p \in Paths :
        /\ pc = "emit"
        /\ Notice("delete failed", p) \in log
        /\ Exists(files, p)
        /\ p[2] \notin known_ids
        /\ known_ids = ids

\* C4: a re-scan whose read fails gets the empty result, treats every known
\* wearer as removed (its files handled by the flags), empties the known
\* set and goes on to the emission; the emission of an empty set never
\* stops the process.
C4_FailedReadIsEmpty ==
    [][/\ (ReconcileStep /\ read_failed') =>
            /\ ids' = {}
            /\ known_ids' = {}
            /\ pc' = "emit"
            /\ \A w \in known_ids, c \in DOMAIN configured :
                 LET p == <<configured[c], w>>
                 IN  Exists(files, p) => RemovalFollowsFlags(p)
       /\ (EmitStep /\ known_ids = {}) => (pc' = "sleep" /\ files' = files)]_vars

\* A wearer is known again after a re-scan whose read had failed while
\* wearers were known: the file kept its rows from before the failure.
C4_Witness ==
    /\ Len(reads) = 3
    /\ ~reads[1] /\ reads[2] /\ ~reads[3]
    /\ pc = "emit"
    /\ \E w \in known_ids, d \in Dirs :
         /\ Exists(files, <<d, w>>)
         /\ Len(files[<<d, w>>]) >= 2

\* Every existing file starts with the header row and holds no other one,
\* and ensure_file_with_header leaves it as it is.
HeaderOnce ==
    \A p \in DOMAIN files :
        /\ Len(files[p]) >= 1
        /\ files[p][1] = HeaderRow
        /\ \A i \in 2..Len(files[p]) : files[p][i].kind = "data"
        /\ ensure_file_with_header(Start(files), p[1], p[2], {}).fs = files

\* Every write to a file that stays in place appends to it.
AppendOnly ==
    \A p \in DOMAIN files \cap DOMAIN files' :
        /\ Len(files'[p]) >= Len(files[p])
        /\ SubSeq(files'[p], 1, Len(files[p])) = files[p]

\* C5: in every reachable state every existing file has the header as its
\* first row and no other header row, calling ensure_file_with_header on it
\* changes nothing, and every later write appends.
C5_HeaderOnce == []HeaderOnce /\ [][AppendOnly]_vars

\* A wearer was removed without deletion and added again: its file has its
\* rows from before the removal and from after the re-addition, with a gap
\* longer than any sleep between them.
C5_Witness ==
    \E p \in DOMAIN files :
        /\ p[2] \in known_ids
        /\ \E i \in 2..(Len(files[p]) - 1) :
             files[p][i + 1].x - files[p][i].x > WEARERS_POLL_SEC

\* C6: a re-scan that reads the set the pass before it read creates no
\* file, deletes no file and leaves the known set as it is.
C6_SameSetNoChange ==
    [][(ReconcileStep /\ ids' = ids) =>
        /\ files' = files
        /\ known_ids' = known_ids
        /\ pc' = "emit"]_vars

\* A re-scan has just run and found nobody removed and nobody added, with
\* wearers known and their files in place.
C6_Witness ==
    /\ pc = "emit"
    /\ iter >= 1
    /\ last_json_check = now
    /\ log = {}
    /\ known_ids # {}
    /\ \A w \in known_ids, c \in DOMAIN configured : Exists(files, <<configured[c], w>>)
    /\ DELETE_ON_REMOVAL /\ ~DRY_RUN

\* C7: under the minute cadence no file holds two data rows of the same
\* clock minute: a second tick within the minute appends nothing.
C7_OneRowPerMinute ==
    \A p \in DOMAIN files :
        \A i, j \in 1..Len(files[p]) :
            (i < j /\ files[p][i].kind = "data" /\ files[p][j].kind = "data")
                => files[p][i].x \div 60 # files[p][j].x \div 60

\* The second tick of the first minute is over and the file of a known
\* wearer still holds the single row of that minute.
C7_Witness ==
    /\ profile = "minute"
    /\ pc = "sleep"
    /\ iter = 1
    /\ now = 1
    /\ \E w \in known_ids, c \in DOMAIN configured :
         /\ Exists(files, <<configured[c], w>>)
         /\ Len(DataRows(files[<<configured[c], w>>])) = 1

\* C8: for every accepted configuration two distinct (wearer, chart) pairs
\* target distinct files, so the data rows of a file all come from one chart.
C8_DistinctTargets ==
    Running =>
        /\ \A c1, c2 \in DOMAIN configured : c1 # c2 => configured[c1] # configured[c2]
        /\ \A p \in DOMAIN files :
             \A i, j \in 1..Len(files[p]) :
                 (files[p][i].kind = "data" /\ files[p][j].kind = "data")
                     => files[p][i].y = files[p][j].y

\* The documented closed range of a chart, in the chart's unit.
DocumentedRange(chart) ==
    CASE chart \in {"activity", "calmness", "mobility"} -> <<0, 10000>>
      [] chart = "cadence" -> <<350, 800>>
      [] chart = "prv" -> <<50, 1000>>
      [] chart = "skin" -> <<0, 800>>
      [] chart = "bouts" -> <<0, 6>>
      [] chart = "longest_bout" -> <<2, 300>>
      [] chart = "pulse_rate" -> <<500, 1200>>
      [] chart = "skin_temp" -> <<32120, 32220>>
      [] chart = "steps" -> <<0, 4>>
      [] chart = "step_time_var" -> <<400, 800>>
      [] chart = "symmetry" -> <<8850, 9150>>
      [] chart = "turns" -> <<140, 220>>
      [] chart = "walking" -> <<80, 180>>

\* C9: for every chart, wearer id, time and outcome of the random source
\* the generator's value lies in the chart's documented closed range.
C9_GeneratorInRange ==
    gen_out.chart # None =>
        /\ DocumentedRange(gen_out.chart)[1] <= gen_out.value
        /\ gen_out.value <= DocumentedRange(gen_out.chart)[2]

\* A skin value whose spike was cut to the top of the range.
C9_Witness == gen_out = [chart |-> "skin", value |-> 800]

\* What a completed emission does to a path: one row per (wearer, chart)
\* pair that targets it, after the header if the file was missing, and
\* nothing when no known wearer's pair targets it.
EmissionDone(p) ==
    LET T == {c \in DOMAIN configured : configured[c] = p[1]}
        base == IF Exists(files, p) THEN files[p] ELSE <<HeaderRow>>
    IN  IF p[2] \in known_ids /\ T # {}
        THEN /\ Exists(files', p)
             /\ Len(files'[p]) = Len(base) + Cardinality(T)
             /\ SubSeq(files'[p], 1, Len(base)) = base
             /\ \A c \in T : \E i \in (Len(base) + 1)..Len(files'[p]) :
                    files'[p][i] = DataRow(now, c)
        ELSE Untouched(p)

\* C10: the emission runs after the re-scan when one is due, on the known
\* set that re-scan left (the set last read); when it completes, each
\* (wearer, chart) pair of a known wearer got exactly one row, its file
\* created with the header first when missing; and a file of a wearer that
\* is not known is neither appended to nor created.
C10_EmitKnownOnly ==
    [][EmitStep =>
        /\ now - last_json_check < WEARERS_POLL_SEC
        /\ known_ids = ids
        /\ pc' = "sleep" => \A p \in Paths : EmissionDone(p)
        /\ \A p \in Paths : p[2] \notin known_ids => Untouched(p)]_vars

\* An emission is over that wrote a known wearer's row and left the kept
\* file of a removed wearer as it was.
C10_Witness ==
    /\ pc = "sleep"
    /\ \E p, q \in DOMAIN files :
         /\ p[2] \notin known_ids
         /\ q[2] \in known_ids
         /\ Last(files[q]).kind = "data" /\ Last(files[q]).x = now
         /\ Last(files[p]).kind = "data" /\ Last(files[p]).x < now

====
